---- MODULE Spec2Model ----
(***************************************************************************)
(* A model of the policy assistant: the text chunker (app/rag/ingestion),  *)
(* the vector store and its indexing pipeline (app/rag/vectorstore) and    *)
(* the answer engine (app/rag/chain).                                      *)
(*                                                                         *)
(* Text is a sequence of one-character strings.  Distances and similarity  *)
(* scores are counted in hundredths (a distance of 0.70 is 70).            *)
(***************************************************************************)
EXTENDS Integers, Sequences, FiniteSets, TLC

VARIABLES
    \* TextChunker._split_text
    text,            \* the document text being split
    chunk_size,      \* TextChunker.chunk_size
    chunk_overlap,   \* TextChunker.chunk_overlap
    split_pc,        \* position in _split_text: "idle", "start", "loop", "done"
    paragraphs,      \* the paragraphs the for loop has still to visit
    current_chunk,   \* the running buffer
    chunks,          \* the chunks emitted so far
    current_ov,      \* how many leading characters of current_chunk are overlap_text
    chunk_ov,        \* per emitted chunk: how many leading characters are overlap
    overlap_log,     \* every overlap_text copied so far, in order
    \* the vector store (app/rag/vectorstore)
    policies,        \* the documents of the policies directory, in load order
    db,              \* the persisted collection "policy_documents"
    _vectorstore,    \* the module's singleton VectorStore
    ix,              \* the last call of initialize_vectorstore and what it did
    ncalls,          \* how many calls of initialize_vectorstore were made
    \* the answer engine (app/rag/chain)
    chain,           \* the RAGChain in use
    q,               \* the last call of RAGChain.query and what it did
    \* the evaluation harness (evaluation/evaluate)
    sc,              \* one call of a scoring function: its inputs and its result
    ev               \* a run of run_evaluation or of run_ablation_k

chunkVars == <<text, chunk_size, chunk_overlap, split_pc, paragraphs,
               current_chunk, chunks, current_ov, chunk_ov, overlap_log>>

indexVars == <<policies, db, _vectorstore, ix, ncalls>>

chainVars == <<chain, q>>

evalVars == <<sc, ev>>

vars == <<chunkVars, indexVars, chainVars, evalVars>>

(***************************************************************************)
(* Bounds of the model.                                                    *)
(***************************************************************************)
MaxTextLen == 6
MaxChunkSize == 4
MaxChunkOverlap == 2
MaxDocs == 2
MaxChunksPerDoc == 2
MaxCalls == 3
MaxK == 2
MaxExpectedWords == 4
MaxAnswerWords == 2
MaxCited == 2
MaxQuestions == 3

(***************************************************************************)
(* Constants of the program.                                               *)
(***************************************************************************)
\* best_score < 0.3
OffTopicThreshold == 30
\* the snippet of a citation: content[:200]
SnippetLen == 200
\* key terms of the expected answer: len(t) > 3
KeyTermMinLen == 3
\* matches >= len(key_terms) * 0.3, in hundredths
MinKeyTermShare == 30
\* tokens of _tokenize: len(t) > 2
TokenMinLen == 2
\* exact match: s >= 0.8, in hundredths
ExactMatchMin == 80
\* RAGChain.__init__(..., k: int = 5)
DefaultK == 5
\* the ablation's question subset: [:10]
AblationSubset == 10

(***************************************************************************)
(* Python string operations used by the chunker.                           *)
(***************************************************************************)
NL == "\n"
Alphabet == {"a", "b", " ", NL}
Whitespace == {" ", NL}

Max(a, b) == IF a >= b THEN a ELSE b

\* s[i:] with a 0-based start index
DropFirst(s, n) == SubSeq(s, n + 1, Len(s))

RECURSIVE LStrip(_)
LStrip(s) ==
    IF s # <<>> /\ Head(s) \in Whitespace THEN LStrip(Tail(s)) ELSE s

RECURSIVE RStrip(_)
RStrip(s) ==
    IF s # <<>> /\ s[Len(s)] \in Whitespace
    THEN RStrip(SubSeq(s, 1, Len(s) - 1))
    ELSE s

\* str.strip()
Strip(s) == RStrip(LStrip(s))

\* str.split('\n\n'): left to right, separators do not overlap
RECURSIVE SplitParagraphsFrom(_, _, _, _)
SplitParagraphsFrom(s, i, cur, acc) ==
    IF i > Len(s) THEN Append(acc, cur)
    ELSE IF i < Len(s) /\ s[i] = NL /\ s[i + 1] = NL
         THEN SplitParagraphsFrom(s, i + 2, <<>>, Append(acc, cur))
         ELSE SplitParagraphsFrom(s, i + 1, Append(cur, s[i]), acc)

SplitParagraphs(s) == SplitParagraphsFrom(s, 1, <<>>, <<>>)

\* str.split('\n')
RECURSIVE SplitLinesFrom(_, _, _, _)
SplitLinesFrom(s, i, cur, acc) ==
    IF i > Len(s) THEN Append(acc, cur)
    ELSE IF s[i] = NL
         THEN SplitLinesFrom(s, i + 1, <<>>, Append(acc, cur))
         ELSE SplitLinesFrom(s, i + 1, Append(cur, s[i]), acc)

SplitLines(s) == SplitLinesFrom(s, 1, <<>>, <<>>)

\* s[-n:]: the last n characters, and the whole of s when n = 0 (-0 is 0)
NegSliceFrom(s, n) ==
    IF n = 0 THEN s ELSE DropFirst(s, Max(Len(s) - n, 0))

(***************************************************************************)
(* TextChunker._split_large_paragraph                                      *)
(***************************************************************************)
RECURSIVE SplitLargeLoop(_, _, _, _, _)
SplitLargeLoop(lines, i, current, acc, size) ==
    IF i > Len(lines)
    THEN IF current # <<>> THEN Append(acc, Strip(current)) ELSE acc
    ELSE LET line == lines[i] IN
         IF Len(current) + Len(line) + 1 > size
         THEN SplitLargeLoop(lines, i + 1, line,
                             IF current # <<>> THEN Append(acc, Strip(current)) ELSE acc,
                             size)
         ELSE SplitLargeLoop(lines, i + 1,
                             IF current # <<>> THEN current \o <<NL>> \o line ELSE line,
                             acc, size)

\* a plausible slip: the trailing buffer is never flushed
SplitLargeParagraphNoFlush(para, size) ==
    LET lines == SplitLines(para)
        got == SplitLargeLoop(lines, 1, <<>>, <<>>, size)
        cut == SubSeq(got, 1, Len(got) - 1)
    IN  IF cut # <<>> THEN cut ELSE <<para>>

SplitLargeParagraph(para, size) ==
    LET got == SplitLargeLoop(SplitLines(para), 1, <<>>, <<>>, size)
    IN  IF got # <<>> THEN got ELSE <<para>>

\* the overlap_text expression of _split_text
OverlapText(cur, overlap) ==
    IF Len(cur) > overlap THEN NegSliceFrom(cur, overlap) ELSE cur

\* how many leading characters str.strip() removes
LeadingWs(s) == Len(s) - Len(LStrip(s))

(***************************************************************************)
(* TextChunker._split_text, one action per step of the function            *)
(***************************************************************************)
Texts == UNION {[1..n -> Alphabet] : n \in 0..MaxTextLen}

ChunkIdle ==
    /\ text = <<>>
    /\ chunk_size = 1
    /\ chunk_overlap = 0
    /\ split_pc = "idle"
    /\ paragraphs = <<>>
    /\ current_chunk = <<>>
    /\ chunks = <<>>
    /\ current_ov = 0
    /\ chunk_ov = <<>>
    /\ overlap_log = <<>>

ChunkInit ==
    /\ text \in Texts
    /\ chunk_size \in 1..MaxChunkSize
    /\ chunk_overlap \in 0..MaxChunkOverlap
    /\ split_pc = "start"
    /\ paragraphs = <<>>
    /\ current_chunk = <<>>
    /\ chunks = <<>>
    /\ current_ov = 0
    /\ chunk_ov = <<>>
    /\ overlap_log = <<>>

\* chunks = []; paragraphs = text.split('\n\n'); current_chunk = ""
SplitTextStart ==
    /\ split_pc = "start"
    /\ paragraphs' = SplitParagraphs(text)
    /\ split_pc' = "loop"
    /\ UNCHANGED <<text, chunk_size, chunk_overlap, current_chunk, chunks,
                   current_ov, chunk_ov, overlap_log>>

\* one iteration of `for para in paragraphs`
SplitTextStep ==
    /\ split_pc = "loop"
    /\ paragraphs # <<>>
    /\ paragraphs' = Tail(paragraphs)
    /\ LET para == Strip(Head(paragraphs)) IN
       IF para = <<>>
       THEN UNCHANGED <<current_chunk, chunks, current_ov, chunk_ov, overlap_log>>
       ELSE IF Len(current_chunk) + Len(para) + 2 > chunk_size
       THEN IF current_chunk # <<>>
            THEN LET overlap_text == OverlapText(current_chunk, chunk_overlap) IN
                 /\ chunks' = Append(chunks, Strip(current_chunk))
                 /\ chunk_ov' = Append(chunk_ov,
                                       Max(current_ov - LeadingWs(current_chunk), 0))
                 /\ current_chunk' = overlap_text \o <<NL, NL>> \o para
                 /\ current_ov' = Len(overlap_text)
                 /\ overlap_log' = Append(overlap_log, overlap_text)
            ELSE LET para_chunks == SplitLargeParagraph(para, chunk_size)
                     init == SubSeq(para_chunks, 1, Len(para_chunks) - 1)
                 IN
                 /\ chunks' = chunks \o init
                 /\ chunk_ov' = chunk_ov \o [j \in 1..Len(init) |-> 0]
                 /\ current_chunk' = IF para_chunks # <<>>
                                     THEN para_chunks[Len(para_chunks)]
                                     ELSE <<>>
                 /\ current_ov' = 0
                 /\ UNCHANGED overlap_log
       ELSE /\ current_chunk' = IF current_chunk # <<>>
                                THEN current_chunk \o <<NL, NL>> \o para
                                ELSE para
            /\ UNCHANGED <<chunks, current_ov, chunk_ov, overlap_log>>
    /\ split_pc' = "loop"
    /\ UNCHANGED <<text, chunk_size, chunk_overlap>>

\* if current_chunk.strip(): chunks.append(current_chunk.strip()); return chunks
SplitTextFlush ==
    /\ split_pc = "loop"
    /\ paragraphs = <<>>
    /\ IF Strip(current_chunk) # <<>>
       THEN /\ chunks' = Append(chunks, Strip(current_chunk))
            /\ chunk_ov' = Append(chunk_ov,
                                  Max(current_ov - LeadingWs(current_chunk), 0))
       ELSE UNCHANGED <<chunks, chunk_ov>>
    /\ split_pc' = "done"
    /\ UNCHANGED <<text, chunk_size, chunk_overlap, paragraphs, current_chunk,
                   current_ov, overlap_log>>

(***************************************************************************)
(* The document corpus and ingest_documents.  A document is its file name,  *)
(* its title and the number of chunks TextChunker gives for its text.       *)
(***************************************************************************)
Sources == <<"pto_policy.md", "security.md", "expenses.md">>

TitleOf(source) ==
    CASE source = "pto_policy.md" -> "PTO Policy"
      [] source = "security.md" -> "Security Policy"
      [] OTHER -> "Expenses"

\* the directories the loader may find: distinct files, each with its chunks
Corpora ==
    {c \in UNION {[1..n -> [source : {Sources[i] : i \in 1..MaxDocs},
                            nchunks : 0..MaxChunksPerDoc]] : n \in 0..MaxDocs} :
        \A i, j \in 1..Len(c) : i # j => c[i].source # c[j].source}

\* DocumentLoader.load_documents: one Document per file
LoadDocuments(pol) ==
    [i \in 1..Len(pol) |->
        [source |-> pol[i].source, title |-> TitleOf(pol[i].source),
         nchunks |-> pol[i].nchunks]]

\* TextChunker.chunk_documents: chunk_id counts from 0 within each document
RECURSIVE ChunkDocuments(_)
ChunkDocuments(documents) ==
    IF documents = <<>> THEN <<>>
    ELSE LET doc == Head(documents) IN
         [i \in 1..doc.nchunks |->
             [source |-> doc.source, title |-> doc.title,
              chunk_id |-> i - 1, chunk_total |-> doc.nchunks]]
         \o ChunkDocuments(Tail(documents))

IngestDocuments(pol) == ChunkDocuments(LoadDocuments(pol))

(***************************************************************************)
(* VectorStore                                                             *)
(***************************************************************************)
\* f"doc_{i}_{source}_{chunk_id}", i the position in the batch, from 0
MakeId(i, source, chunk_id) == <<"doc", i, source, chunk_id>>

IdsOf(entries) == {entries[i].id : i \in 1..Len(entries)}

DistinctIds(entries) ==
    \A i, j \in 1..Len(entries) : i # j => entries[i].id # entries[j].id

\* collection.add: a batch that repeats an id is refused, an id the
\* collection already holds is left as it is
RECURSIVE CollectionAdd(_, _)
CollectionAdd(entries, batch) ==
    IF batch = <<>> THEN entries
    ELSE CollectionAdd(IF Head(batch).id \in IdsOf(entries)
                       THEN entries
                       ELSE Append(entries, Head(batch)),
                       Tail(batch))

\* VectorStore.add_documents on the collection `entries`;
\* fault = "embed": embedding_model.embed_documents raises
AddDocuments(entries, documents, fault) ==
    IF documents = <<>>
    THEN [entries |-> entries, raised |-> FALSE, embedded |-> FALSE, inserted |-> 0]
    ELSE IF fault = "embed"
    THEN [entries |-> entries, raised |-> TRUE, embedded |-> TRUE, inserted |-> 0]
    ELSE LET batch == [i \in 1..Len(documents) |->
                          [id |-> MakeId(i - 1, documents[i].source,
                                         documents[i].chunk_id),
                           source |-> documents[i].source,
                           title |-> documents[i].title,
                           chunk_id |-> documents[i].chunk_id,
                           chunk_total |-> documents[i].chunk_total]]
         IN  IF ~DistinctIds(batch)
             THEN [entries |-> entries, raised |-> TRUE, embedded |-> TRUE,
                   inserted |-> 0]
             ELSE [entries |-> CollectionAdd(entries, batch), raised |-> FALSE,
                   embedded |-> TRUE, inserted |-> Len(documents)]

\* VectorStore.clear: delete the collection and create a new, empty one
Clear(d) == [gen |-> d.gen + 1, entries |-> <<>>]

\* a slip: the non-empty index is not recognised, every call indexes again
InitializeVectorstoreAlways(d, pol, force_reindex, fault) ==
    LET cleared == IF force_reindex THEN Clear(d) ELSE d
        added == AddDocuments(cleared.entries, IngestDocuments(pol), fault)
    IN  [db |-> [gen |-> cleared.gen, entries |-> added.entries],
         handle |-> cleared.gen,
         raised |-> added.raised,
         cleared |-> force_reindex,
         loaded |-> TRUE,
         embedded |-> added.embedded,
         inserted |-> added.inserted,
         count |-> Len(added.entries)]

\* a slip: the forced rebuild clears the collection after filling it
InitializeVectorstoreClearLast(d, pol, force_reindex, fault) ==
    IF force_reindex \/ Len(d.entries) = 0
    THEN LET added == AddDocuments(d.entries, IngestDocuments(pol), fault)
             after == [gen |-> d.gen, entries |-> added.entries]
             final == IF force_reindex /\ ~added.raised THEN Clear(after) ELSE after
         IN  [db |-> final,
              handle |-> final.gen,
              raised |-> added.raised,
              cleared |-> force_reindex,
              loaded |-> TRUE,
              embedded |-> added.embedded,
              inserted |-> added.inserted,
              count |-> Len(final.entries)]
    ELSE [db |-> d, handle |-> d.gen, raised |-> FALSE, cleared |-> FALSE,
          loaded |-> FALSE, embedded |-> FALSE, inserted |-> 0,
          count |-> Len(d.entries)]

\* initialize_vectorstore(force_reindex) on the persisted collection d:
\* the collection afterwards, the handle of the VectorStore it returns, and
\* what the call did
InitializeVectorstore(d, pol, force_reindex, fault) ==
    IF force_reindex \/ Len(d.entries) = 0
    THEN LET cleared == IF force_reindex THEN Clear(d) ELSE d
             added == AddDocuments(cleared.entries, IngestDocuments(pol), fault)
         IN  [db |-> [gen |-> cleared.gen, entries |-> added.entries],
              handle |-> cleared.gen,
              raised |-> added.raised,
              cleared |-> force_reindex,
              loaded |-> TRUE,
              embedded |-> added.embedded,
              inserted |-> added.inserted,
              count |-> Len(added.entries)]
    ELSE [db |-> d, handle |-> d.gen, raised |-> FALSE, cleared |-> FALSE,
          loaded |-> FALSE, embedded |-> FALSE, inserted |-> 0,
          count |-> Len(d.entries)]

\* what ix records of a call
CallRecord(op, force_reindex, before, r) ==
    [op |-> op, force |-> force_reindex, before |-> before,
     raised |-> r.raised, cleared |-> r.cleared, loaded |-> r.loaded,
     embedded |-> r.embedded, inserted |-> r.inserted, count |-> r.count]

NoDb == [gen |-> 0, entries |-> <<>>]

NoCall ==
    [op |-> "none", force |-> FALSE, before |-> NoDb, raised |-> FALSE,
     cleared |-> FALSE, loaded |-> FALSE, embedded |-> FALSE, inserted |-> 0,
     count |-> 0]

NoVectorstore == [made |-> FALSE, handle |-> 0]

IndexFaults == {"none", "embed"}

IndexInit ==
    /\ policies \in Corpora
    /\ db = NoDb
    /\ _vectorstore = NoVectorstore
    /\ ix = NoCall
    /\ ncalls = 0

\* the index as the query specification starts from: one fixed directory
IndexFixed ==
    /\ policies = <<[source |-> Sources[1], nchunks |-> 2]>>
    /\ db = NoDb
    /\ _vectorstore = NoVectorstore
    /\ ix = NoCall
    /\ ncalls = 0

IndexIdle ==
    /\ policies = <<>>
    /\ db = NoDb
    /\ _vectorstore = NoVectorstore
    /\ ix = NoCall
    /\ ncalls = 0

(***************************************************************************)
(* VectorStore.search.  The embedding model and the collection's nearest-  *)
(* neighbour query are black boxes: a search either fails or gets at most k *)
(* hits, best (smallest distance) first.                                   *)
(***************************************************************************)
ShortContent == <<"p", "t", "o">>
LongContent == [i \in 1..(SnippetLen + 1) |-> "x"]

ContentOf(source) == IF source = Sources[1] THEN ShortContent ELSE LongContent

\* distances around the off-topic threshold, in hundredths
Distances == {0, 69, 70, 71, 130}

\* a hit of the collection's query: the stored chunk and its distance
Hits == [source : {Sources[1], Sources[2]}, distance : Distances]

\* what collection.query(n_results = k) can return: at most k hits, best first
RawResults(k) ==
    {r \in UNION {[1..n -> Hits] : n \in 0..k} :
        \A i \in 1..(Len(r) - 1) : r[i].distance <= r[i + 1].distance}

\* the documents, metadatas and distances of a hit, as search formats them
FormatResult(hit) ==
    [content |-> ContentOf(hit.source),
     metadata |-> [source |-> hit.source, title |-> TitleOf(hit.source),
                   chunk_id |-> 0, chunk_total |-> 1],
     distance |-> hit.distance,
     score |-> 100 - hit.distance]

SearchFaults == {"none", "embed", "index"}

\* a slip: a failing search is reported as "nothing found"
SearchSwallow(fault, raw) ==
    [raised |-> FALSE,
     embedCalls |-> 1,
     indexQueries |-> IF fault = "embed" THEN 0 ELSE 1,
     results |-> IF fault # "none" THEN <<>>
                 ELSE [i \in 1..Len(raw) |-> FormatResult(raw[i])]]

\* VectorStore.search(query, k): fault = "embed": embed_query raises;
\* fault = "index": collection.query raises; raw: what collection.query returns
Search(fault, raw) ==
    IF fault = "embed"
    THEN [raised |-> TRUE, embedCalls |-> 1, indexQueries |-> 0, results |-> <<>>]
    ELSE IF fault = "index"
    THEN [raised |-> TRUE, embedCalls |-> 1, indexQueries |-> 1, results |-> <<>>]
    ELSE [raised |-> FALSE, embedCalls |-> 1, indexQueries |-> 1,
          results |-> [i \in 1..Len(raw) |-> FormatResult(raw[i])]]

(***************************************************************************)
(* RAGChain                                                                *)
(***************************************************************************)
Refusal == [kind |-> "refusal", text |-> "I can only answer questions about ..."]
NotConfigured == [kind |-> "error", text |-> "Error: LLM not configured. ..."]
ErrorGenerating(e) == [kind |-> "error", text |-> <<"Error generating response: ", e>>]
NoAnswer == [kind |-> "none", text |-> ""]

\* the characters of the answer of the off-topic short-circuit
RefusalText ==
    <<"I", " ", "c", "a", "n", " ", "o", "n", "l", "y", " ", "a", "n", "s",
      "w", "e", "r", " ", "q", "u", "e", "s", "t", "i", "o", "n", "s", " ",
      "a", "b", "o", "u", "t", " ", "A", "c", "m", "e", " ", "C", "o", "r",
      "p", "o", "r", "a", "t", "i", "o", "n", "'", "s", " ", "c", "o", "m",
      "p", "a", "n", "y", " ", "p", "o", "l", "i", "c", "i", "e", "s", " ">>
    \o
    <<"(", "s", "u", "c", "h", " ", "a", "s", " ", "P", "T", "O", ",", " ",
      "b", "e", "n", "e", "f", "i", "t", "s", ",", " ", "r", "e", "m", "o",
      "t", "e", " ", "w", "o", "r", "k", ",", " ", "s", "e", "c", "u", "r",
      "i", "t", "y", ",", " ", "e", "x", "p", "e", "n", "s", "e", "s", ",",
      " ", "e", "t", "c", ".", ")", ".", " ">>
    \o
    <<"F", "o", "r", " ", "o", "t", "h", "e", "r", " ", "q", "u", "e", "s",
      "t", "i", "o", "n", "s", ",", " ", "p", "l", "e", "a", "s", "e", " ",
      "c", "o", "n", "t", "a", "c", "t", " ", "H", "R", " ", "a", "t", " ",
      "h", "r", "@", "a", "c", "m", "e", "c", "o", "r", "p", ".", "c", "o",
      "m", ".">>

\* what the LLM backend may do with a prompt: answer (citing its sources or
\* not) or raise
LlmBehaviours == {"cited", "uncited", "raise"}

\* a slip: the threshold is inclusive
IsOffTopicInclusive(question, results) ==
    IF results = <<>> THEN TRUE ELSE results[1].score <= OffTopicThreshold

\* a slip: only a low score counts, an empty result list does not
IsOffTopicScoreOnly(question, results) ==
    IF results = <<>> THEN FALSE ELSE results[1].score < OffTopicThreshold

\* RAGChain._is_off_topic
IsOffTopic(question, results) ==
    IF results = <<>> THEN TRUE ELSE results[1].score < OffTopicThreshold

\* RAGChain._build_context: one labelled block per result, in rank order
BuildContext(results) ==
    [i \in 1..Len(results) |->
        [title |-> results[i].metadata.title,
         source |-> results[i].metadata.source,
         content |-> results[i].content]]

\* RAGChain._build_prompt
BuildPrompt(question, context) == [context |-> context, question |-> question]

\* a slip: the backend's exception leaves _call_llm
CallLLMPropagates(groq_client, prompt, llm) ==
    IF ~groq_client
    THEN [raised |-> FALSE, answer |-> NotConfigured, apiCalls |-> 0]
    ELSE IF llm = "raise"
    THEN [raised |-> TRUE, answer |-> NoAnswer, apiCalls |-> 1]
    ELSE [raised |-> FALSE, answer |-> [kind |-> "llm", text |-> llm], apiCalls |-> 1]

\* RAGChain._call_llm; groq_client: whether the client was configured
CallLLM(groq_client, prompt, llm) ==
    IF ~groq_client
    THEN [raised |-> FALSE, answer |-> NotConfigured, apiCalls |-> 0]
    ELSE IF llm = "raise"
    THEN [raised |-> FALSE, answer |-> ErrorGenerating("backend error"), apiCalls |-> 1]
    ELSE [raised |-> FALSE, answer |-> [kind |-> "llm", text |-> llm], apiCalls |-> 1]

\* content[:200] + "..." if len(content) > 200 else content
Snippet(content) ==
    IF Len(content) > SnippetLen
    THEN SubSeq(content, 1, SnippetLen) \o <<"...">>
    ELSE content

\* a slip: the citations are listed worst first
FormatSourcesReversed(results) ==
    [i \in 1..Len(results) |->
        [source |-> results[Len(results) + 1 - i].metadata.source,
         title |-> results[Len(results) + 1 - i].metadata.title,
         snippet |-> Snippet(results[Len(results) + 1 - i].content),
         score |-> results[Len(results) + 1 - i].score]]

\* the sources list comprehension of RAGChain.query
FormatSources(results) ==
    [i \in 1..Len(results) |->
        [source |-> results[i].metadata.source,
         title |-> results[i].metadata.title,
         snippet |-> Snippet(results[i].content),
         score |-> results[i].score]]

Questions == {<<>>, <<" ">>, <<"p", "t", "o", "?">>}

NoChain == [constructed |-> FALSE, k |-> 0, groq_client |-> FALSE]

NoQuery ==
    [outcome |-> "none", question |-> <<>>, fault |-> "none", llm |-> "none",
     groq_client |-> FALSE, results |-> <<>>, answer |-> NoAnswer, sources |-> <<>>,
     prompt |-> BuildPrompt(<<>>, <<>>), llmInvoked |-> FALSE, apiCalls |-> 0,
     embedCalls |-> 0, indexQueries |-> 0,
     via |-> "none", status |-> 0, has_message |-> FALSE, message |-> <<>>,
     k |-> 0, handle |-> 0, live |-> 0, reindexed |-> FALSE]

ChainInit ==
    /\ chain = NoChain
    /\ q = NoQuery

\* a slip: every construction rebuilds the index
NewRAGChainRebuilds(kk, api_key, fault) ==
    /\ ncalls < MaxCalls
    /\ LET r == InitializeVectorstore(db, policies, TRUE, fault) IN
       /\ db' = r.db
       /\ ix' = CallRecord("get_vectorstore", TRUE, db, r)
       /\ ncalls' = ncalls + 1
       /\ IF r.raised
          THEN UNCHANGED <<_vectorstore, chain>>
          ELSE /\ _vectorstore' = [made |-> TRUE, handle |-> r.handle]
               /\ chain' = [constructed |-> TRUE, k |-> kk,
                            groq_client |-> api_key]
    /\ UNCHANGED <<policies, q>>

\* RAGChain.__init__(k = kk): get_vectorstore(), then _init_llm();
\* api_key: whether GROQ_API_KEY is set
NewRAGChain(kk, api_key, fault) ==
    IF _vectorstore.made
    THEN /\ chain' = [constructed |-> TRUE, k |-> kk, groq_client |-> api_key]
         /\ UNCHANGED <<policies, db, _vectorstore, ix, ncalls, q>>
    ELSE /\ ncalls < MaxCalls
         /\ LET r == InitializeVectorstore(db, policies, FALSE, fault) IN
            /\ db' = r.db
            /\ ix' = CallRecord("get_vectorstore", FALSE, db, r)
            /\ ncalls' = ncalls + 1
            /\ IF r.raised
               THEN UNCHANGED <<_vectorstore, chain>>
               ELSE /\ _vectorstore' = [made |-> TRUE, handle |-> r.handle]
                    /\ chain' = [constructed |-> TRUE, k |-> kk,
                                 groq_client |-> api_key]
         /\ UNCHANGED <<policies, q>>

\* the /api/reindex handler: initialize_vectorstore(force_reindex=True)
Reindex(fault) ==
    /\ ncalls < MaxCalls
    /\ LET r == InitializeVectorstore(db, policies, TRUE, fault) IN
       /\ db' = r.db
       /\ ix' = CallRecord("reindex", TRUE, db, r)
    /\ ncalls' = ncalls + 1
    /\ UNCHANGED <<policies, _vectorstore, chain, q>>

\* the process ends and a new one starts: the module singletons are None
\* again, the persisted collection stays
Restart ==
    /\ _vectorstore.made
    /\ _vectorstore' = NoVectorstore
    /\ chain' = NoChain
    /\ q' = NoQuery
    /\ UNCHANGED <<policies, db, ix, ncalls>>

\* between two indexing runs a policy file is added to the directory or
\* removed from it; this happens once, after the first rebuild
EditPolicies ==
    /\ db.gen = 1
    /\ Len(db.entries) = Len(IngestDocuments(policies))
    /\ \E pol \in Corpora :
          /\ \/ \E i \in 1..Len(policies) :
                   pol = SubSeq(policies, 1, i - 1)
                             \o SubSeq(policies, i + 1, Len(policies))
             \/ \E i \in 1..Len(pol) :
                   policies = SubSeq(pol, 1, i - 1) \o SubSeq(pol, i + 1, Len(pol))
          /\ policies' = pol
    /\ UNCHANGED <<db, _vectorstore, ix, ncalls, chain, q>>

\* an engine exists and no request is being served
Ready == chain.constructed /\ q.outcome = "none"

\* what a caller that reached RAGChain.query directly adds to the record
\* which collection a query of the engine goes to: the engine's vectorstore
\* is the singleton, whose self.collection was obtained when it was made;
\* live is the collection that exists now, reindexed tells that the last
\* call of initialize_vectorstore was a successful forced rebuild
Target ==
    [handle |-> _vectorstore.handle, live |-> db.gen,
     reindexed |-> ix.op = "reindex" /\ ~ix.raised]

Direct(question, r) ==
    r @@ [via |-> "query", status |-> 0, has_message |-> TRUE,
          message |-> question, k |-> chain.k] @@ Target

\* the body of RAGChain.query(question) on the engine `chain`
RunQuery(question, fault, raw, llm) ==
       LET s == Search(fault, raw) IN
       IF s.raised
       THEN      [outcome |-> "raised", question |-> question, fault |-> fault,
                  llm |-> "none", groq_client |-> chain.groq_client,
                  results |-> <<>>, answer |-> NoAnswer,
                  sources |-> <<>>, prompt |-> BuildPrompt(<<>>, <<>>),
                  llmInvoked |-> FALSE, apiCalls |-> 0,
                  embedCalls |-> s.embedCalls, indexQueries |-> s.indexQueries]
       ELSE IF IsOffTopic(question, s.results)
       THEN      [outcome |-> "returned", question |-> question, fault |-> fault,
                  llm |-> "none", groq_client |-> chain.groq_client,
                  results |-> s.results, answer |-> Refusal,
                  sources |-> <<>>, prompt |-> BuildPrompt(<<>>, <<>>),
                  llmInvoked |-> FALSE, apiCalls |-> 0,
                  embedCalls |-> s.embedCalls, indexQueries |-> s.indexQueries]
       ELSE LET context == BuildContext(s.results)
                prompt == BuildPrompt(question, context)
                a == CallLLM(chain.groq_client, prompt, llm)
            IN       [outcome |-> IF a.raised THEN "raised" ELSE "returned",
                      question |-> question, fault |-> fault,
                      llm |-> IF chain.groq_client THEN llm ELSE "none",
                      groq_client |-> chain.groq_client,
                      results |-> s.results,
                      answer |-> a.answer,
                      sources |-> IF a.raised THEN <<>> ELSE FormatSources(s.results),
                      prompt |-> prompt, llmInvoked |-> TRUE,
                      apiCalls |-> a.apiCalls,
                      embedCalls |-> s.embedCalls, indexQueries |-> s.indexQueries]

\* RAGChain.query(question); requests are served one at a time
Query(question, fault, raw, llm) ==
    /\ Ready
    /\ q' = Direct(question, RunQuery(question, fault, raw, llm))
    /\ UNCHANGED <<policies, db, _vectorstore, ix, ncalls, chain>>

\* the request bodies of POST /chat: no message field, or a message
ChatBodies ==
    {[has_message |-> FALSE, message |-> <<>>]}
        \cup [has_message : {TRUE}, message : Questions]

\* a slip: the message is not stripped before the emptiness test
ChatQuestionUnstripped(message) == message

\* question = data['message'].strip()
ChatQuestion(message) == Strip(message)

\* the /chat handler.  A body without a message, or with a blank one, is
\* answered 400 before get_chain(); otherwise the engine get_chain() returns
\* (the one already built) is queried, and an exception becomes a 500.
Chat(data, fault, raw, llm) ==
    /\ q.outcome = "none"
    /\ IF ~data.has_message \/ ChatQuestion(data.message) = <<>>
       THEN q' = [NoQuery EXCEPT !.outcome = "rejected", !.via = "chat",
                                 !.status = 400,
                                 !.has_message = data.has_message,
                                 !.message = data.message]
       ELSE /\ chain.constructed
            /\ LET question == ChatQuestion(data.message)
                   r == RunQuery(question, fault, raw, llm)
               IN  q' = r @@ [via |-> "chat",
                              status |-> IF r.outcome = "raised" THEN 500 ELSE 200,
                              has_message |-> TRUE, message |-> data.message,
                              k |-> chain.k] @@ Target
    /\ UNCHANGED <<policies, db, _vectorstore, ix, ncalls, chain>>

\* the caller has used the RAGResponse (or the exception) and drops it
ResponseConsumed ==
    /\ q.outcome # "none"
    /\ q' = NoQuery
    /\ UNCHANGED <<policies, db, _vectorstore, ix, ncalls, chain>>

ChainIdle == ChainInit

(***************************************************************************)
(* The scoring functions of the evaluation harness (evaluation/evaluate).  *)
(* A ratio is kept as numerator and denominator.                           *)
(***************************************************************************)
UpperCase == <<"A", "B", "C", "D", "E", "F", "G", "H", "I", "J", "K", "L", "M", "N", "O", "P", "Q", "R", "S", "T", "U", "V", "W", "X", "Y", "Z">>
LowerCase == <<"a", "b", "c", "d", "e", "f", "g", "h", "i", "j", "k", "l", "m", "n", "o", "p", "q", "r", "s", "t", "u", "v", "w", "x", "y", "z">>
Digits == {"0", "1", "2", "3", "4", "5", "6", "7", "8", "9"}

\* str.lower on one character
LowerChar(c) ==
    IF \E i \in 1..Len(UpperCase) : UpperCase[i] = c
    THEN LowerCase[CHOOSE i \in 1..Len(UpperCase) : UpperCase[i] = c]
    ELSE c

\* str.lower
Lower(s) == [i \in 1..Len(s) |-> LowerChar(s[i])]

\* str.split(): the maximal runs of non-whitespace characters of s[i:],
\* cur being the run read so far
RECURSIVE SplitWordsFrom(_, _, _)
SplitWordsFrom(s, i, cur) ==
    IF i > Len(s)
    THEN IF cur = <<>> THEN <<>> ELSE <<cur>>
    ELSE IF s[i] \in Whitespace
    THEN IF cur = <<>>
         THEN SplitWordsFrom(s, i + 1, <<>>)
         ELSE <<cur>> \o SplitWordsFrom(s, i + 1, <<>>)
    ELSE SplitWordsFrom(s, i + 1, Append(cur, s[i]))

SplitWords(s) == SplitWordsFrom(s, 1, <<>>)

\* `needle in hay` for strings: needle starts at some position of hay
Contains(hay, needle) ==
    \E i \in 1..(Len(hay) - Len(needle) + 1) :
        SubSeq(hay, i, i + Len(needle) - 1) = needle

\* a slip: only the phrases of other refusals are listed
IndicatorsOfOtherRefusals ==
    <<<<"o", "u", "t", "s", "i", "d", "e">>,
      <<"d", "o", "n", "'", "t", " ", "h", "a", "v", "e">>,
      <<"n", "o", "t", " ", "i", "n", " ", "o", "u", "r", " ", "p", "o", "l", "i", "c", "i", "e", "s">>>>

\* indicators = [...]
Indicators ==
    <<<<"c", "a", "n", " ", "o", "n", "l", "y", " ", "a", "n", "s", "w", "e", "r">>,
      <<"c", "o", "m", "p", "a", "n", "y", " ", "p", "o", "l", "i", "c", "i", "e", "s">>,
      <<"o", "u", "t", "s", "i", "d", "e">>,
      <<"d", "o", "n", "'", "t", " ", "h", "a", "v", "e">>,
      <<"n", "o", "t", " ", "i", "n", " ", "o", "u", "r", " ", "p", "o", "l", "i", "c", "i", "e", "s">>,
      <<"h", "r", "@", "a", "c", "m", "e", "c", "o", "r", "p", ".", "c", "o", "m">>,
      <<"c", "o", "n", "t", "a", "c", "t", " ", "h", "r">>>>

\* evaluate_off_topic: any(ind in answer.lower() for ind in indicators)
EvaluateOffTopic(answer) ==
    LET answer_lower == Lower(answer) IN
    \E i \in 1..Len(Indicators) : Contains(answer_lower, Indicators[i])

\* sum(1 for t in key_terms if t in answer_lower)
RECURSIVE CountMatches(_, _)
CountMatches(key_terms, answer_lower) ==
    IF key_terms = <<>> THEN 0
    ELSE (IF Contains(answer_lower, Head(key_terms)) THEN 1 ELSE 0)
             + CountMatches(Tail(key_terms), answer_lower)

\* a slip: the comparison is case-sensitive
EvaluateGroundednessCaseSensitive(answer, expected_keywords) ==
    IF answer = <<>> \/ expected_keywords = <<>> THEN FALSE
    ELSE LET key_terms == SelectSeq(SplitWords(expected_keywords),
                                    LAMBDA t : Len(t) > KeyTermMinLen)
             matches == CountMatches(key_terms, answer)
         IN  IF key_terms = <<>> THEN FALSE
             ELSE matches * 100 >= Len(key_terms) * MinKeyTermShare

\* evaluate_groundedness(answer, expected_keywords)
EvaluateGroundedness(answer, expected_keywords) ==
    IF answer = <<>> \/ expected_keywords = <<>> THEN FALSE
    ELSE LET answer_lower == Lower(answer)
             key_terms == SelectSeq(SplitWords(Lower(expected_keywords)),
                                    LAMBDA t : Len(t) > KeyTermMinLen)
             matches == CountMatches(key_terms, answer_lower)
         IN  IF key_terms = <<>> THEN FALSE
             ELSE matches * 100 >= Len(key_terms) * MinKeyTermShare

\* the for loop of evaluate_citation over sources_cited
RECURSIVE CitationLoop(_, _)
CitationLoop(sources_cited, expected_lower) ==
    IF sources_cited = <<>> THEN FALSE
    ELSE LET source == Lower(Head(sources_cited)) IN
         IF Contains(source, expected_lower) \/ Contains(expected_lower, source)
         THEN TRUE
         ELSE CitationLoop(Tail(sources_cited), expected_lower)

\* a slip: only a cited source inside the expected source counts
EvaluateCitationOneWay(sources_cited, expected_source) ==
    IF expected_source = <<>> THEN TRUE
    ELSE \E i \in 1..Len(sources_cited) :
            Contains(Lower(expected_source), Lower(sources_cited[i]))

\* evaluate_citation(sources_cited, expected_source)
EvaluateCitation(sources_cited, expected_source) ==
    IF expected_source = <<>> THEN TRUE
    ELSE CitationLoop(sources_cited, Lower(expected_source))

\* re.findall(r'[a-z0-9]+', s[i:]): the maximal runs of lowercase letters
\* and digits, cur being the run read so far
RECURSIVE FindAllFrom(_, _, _)
FindAllFrom(s, i, cur) ==
    IF i > Len(s)
    THEN IF cur = <<>> THEN <<>> ELSE <<cur>>
    ELSE IF (\E j \in 1..Len(LowerCase) : LowerCase[j] = s[i]) \/ s[i] \in Digits
    THEN FindAllFrom(s, i + 1, Append(cur, s[i]))
    ELSE IF cur = <<>>
         THEN FindAllFrom(s, i + 1, <<>>)
         ELSE <<cur>> \o FindAllFrom(s, i + 1, <<>>)

\* _tokenize(txt): the set of the runs longer than 2 characters
Tokenize(txt) ==
    LET tokens == FindAllFrom(Lower(txt), 1, <<>>) IN
    {tokens[i] : i \in {j \in 1..Len(tokens) : Len(tokens[j]) > TokenMinLen}}

OffTopicSentinel == <<"O", "F", "F", "_", "T", "O", "P", "I", "C">>
ZeroRatio == [num |-> 0, den |-> 1]

\* a slip: the denominator is the union of the token sets (a Jaccard index)
EvaluatePartialMatchJaccard(answer, expected) ==
    IF answer = <<>> \/ expected = <<>> \/ expected = OffTopicSentinel
    THEN ZeroRatio
    ELSE LET ans_tokens == Tokenize(answer)
             exp_tokens == Tokenize(expected)
         IN  IF exp_tokens = {} THEN ZeroRatio
             ELSE [num |-> Cardinality(ans_tokens \cap exp_tokens),
                   den |-> Cardinality(ans_tokens \cup exp_tokens)]

\* evaluate_partial_match(answer, expected)
EvaluatePartialMatch(answer, expected) ==
    IF answer = <<>> \/ expected = <<>> \/ expected = OffTopicSentinel
    THEN ZeroRatio
    ELSE LET ans_tokens == Tokenize(answer)
             exp_tokens == Tokenize(expected)
         IN  IF exp_tokens = {} THEN ZeroRatio
             ELSE [num |-> Cardinality(ans_tokens \cap exp_tokens),
                   den |-> Cardinality(exp_tokens)]

\* " ".join(words)
RECURSIVE Join(_)
Join(words) ==
    IF words = <<>> THEN <<>>
    ELSE IF Len(words) = 1 THEN Head(words)
    ELSE Head(words) \o <<" ">> \o Join(Tail(words))

\* the texts of at most n words of the set `words`
Sentences(words, n) == {Join(w) : w \in UNION {[1..k -> words] : k \in 0..n}}

\* words of expected answers and of answers
ExpectedWords == {<<"d", "a", "y", "s">>, <<"P", "T", "O">>, <<"L", "e", "a", "v", "e">>}
AnswerWords == {<<"D", "a", "y", "s", ",">>, <<"l", "e", "a", "v", "e", "s">>}

ExpectedTexts ==
    Sentences(ExpectedWords, MaxExpectedWords) \cup {<<" ">>, OffTopicSentinel}
AnswerTexts ==
    Sentences(AnswerWords, MaxAnswerWords) \cup {<<" ">>, OffTopicSentinel}

\* source names as the engine cites them and as the question file expects them
PtoPolicyMd == <<"p", "t", "o", "_", "p", "o", "l", "i", "c", "y", ".", "m", "d">>
PtoPolicyTitle == <<"P", "T", "O", " ", "P", "o", "l", "i", "c", "y">>
CitedSources == {PtoPolicyMd, <<"P", "T", "O">>, <<>>}
ExpectedSources == {<<>>, PtoPolicyTitle, <<"P", "o", "l", "i", "c", "y", ".", "m", "d">>}
CitedLists == UNION {[1..k -> CitedSources] : k \in 0..MaxCited}

NoScore ==
    [fn |-> "none", answer |-> <<>>, expected |-> <<>>, cited |-> <<>>,
     done |-> FALSE, verdict |-> FALSE, ratio |-> ZeroRatio]

\* the calls of the scoring functions that are made
ScoreInputs ==
    {[NoScore EXCEPT !.fn = f, !.answer = a, !.expected = e] :
        f \in {"groundedness", "partial_match"}, a \in AnswerTexts,
        e \in ExpectedTexts}
    \cup {[NoScore EXCEPT !.fn = "citation", !.cited = c, !.expected = e] :
             c \in CitedLists, e \in ExpectedSources}

ScoreGroundedness ==
    /\ sc.fn = "groundedness"
    /\ ~sc.done
    /\ sc' = [sc EXCEPT !.done = TRUE,
                        !.verdict = EvaluateGroundedness(sc.answer, sc.expected)]
    /\ UNCHANGED ev

ScoreCitation ==
    /\ sc.fn = "citation"
    /\ ~sc.done
    /\ sc' = [sc EXCEPT !.done = TRUE,
                        !.verdict = EvaluateCitation(sc.cited, sc.expected)]
    /\ UNCHANGED ev

ScorePartialMatch ==
    /\ sc.fn = "partial_match"
    /\ ~sc.done
    /\ sc' = [sc EXCEPT !.done = TRUE,
                        !.ratio = EvaluatePartialMatch(sc.answer, sc.expected)]
    /\ UNCHANGED ev

(***************************************************************************)
(* run_evaluation and run_ablation_k.  What chain.query answers and what    *)
(* the scoring functions make of the answer are inputs of each step.       *)
(* Percentages and means are ratios; latencies are in milliseconds, match  *)
(* scores in hundredths.                                                   *)
(***************************************************************************)
\* a question of the question file: the expected answer is "OFF_TOPIC" or not
QuestionKinds == {[off_topic |-> FALSE, category |-> "pto"],
                  [off_topic |-> TRUE, category |-> "off_topic"]}

\* load_questions(): the questions of the file, q['id'] being the position
QuestionFiles ==
    {[i \in 1..Len(f) |-> [id |-> i, off_topic |-> f[i].off_topic,
                           category |-> f[i].category]] :
        f \in UNION {[1..m -> QuestionKinds] : m \in 0..MaxQuestions}}

Failure ==
    [failed |-> TRUE, short |-> FALSE, g |-> FALSE, c |-> FALSE,
     handled |-> FALSE, p |-> 0, lat |-> 0]

\* processing one question: chain.query or a scorer raises, or the scorers'
\* verdicts on the answer, its match score and its latency.  short: the
\* engine took the off-topic short-circuit, the answer is its refusal
Responses(qn) ==
    {Failure} \cup
    IF qn.off_topic
    THEN {[failed |-> FALSE, short |-> TRUE, g |-> FALSE, c |-> FALSE,
           handled |-> EvaluateOffTopic(RefusalText), p |-> 0, lat |-> 20]}
         \cup
         {[failed |-> FALSE, short |-> FALSE, g |-> FALSE, c |-> FALSE,
           handled |-> h, p |-> 0, lat |-> 20] : h \in BOOLEAN}
    ELSE {[failed |-> FALSE, short |-> FALSE, g |-> g, c |-> c,
           handled |-> FALSE, p |-> pl[1], lat |-> pl[2]] :
             g \in BOOLEAN, c \in BOOLEAN, pl \in {<<50, 10>>, <<80, 30>>}}

\* the ablation's queries: a failure, a good answer or a poor one
AblationResponses ==
    {Failure,
     [failed |-> FALSE, short |-> FALSE, g |-> TRUE, c |-> TRUE,
      handled |-> FALSE, p |-> 80, lat |-> 10],
     [failed |-> FALSE, short |-> FALSE, g |-> FALSE, c |-> FALSE,
      handled |-> FALSE, p |-> 50, lat |-> 30]}

RECURSIVE SumSeq(_)
SumSeq(xs) == IF xs = <<>> THEN 0 ELSE Head(xs) + SumSeq(Tail(xs))

\* count / n * 100 if n else default
Pct(count, n, default) ==
    IF n = 0 THEN [num |-> default, den |-> 1] ELSE [num |-> count * 100, den |-> n]

\* np.mean(xs) if xs else 0
Mean(xs) ==
    IF xs = <<>> THEN [num |-> 0, den |-> 1] ELSE [num |-> SumSeq(xs), den |-> Len(xs)]

\* np.percentile(xs, pct) if xs else 0, linear interpolation between the two
\* closest ranks, as a ratio over 100
Percentile(xs, pct) ==
    IF xs = <<>> THEN [num |-> 0, den |-> 1]
    ELSE LET sorted == SortSeq(xs, LAMBDA a, b : a < b)
             t == (Len(xs) - 1) * pct
             lo == t \div 100
             hi == IF lo + 1 < Len(xs) THEN lo + 1 ELSE lo
             f == t % 100
         IN  [num |-> sorted[lo + 1] * (100 - f) + sorted[hi + 1] * f, den |-> 100]

\* np.min / np.max
MinOf(xs) == IF xs = <<>> THEN 0 ELSE SortSeq(xs, LAMBDA a, b : a < b)[1]
MaxOf(xs) == IF xs = <<>> THEN 0 ELSE SortSeq(xs, LAMBDA a, b : a < b)[Len(xs)]

\* a slip: every record counts as on-topic
OnTopicRecordsAll(results) == results

\* on_topic = [r for r in results if r.expected_answer != "OFF_TOPIC"]
OnTopicRecords(results) == SelectSeq(results, LAMBDA r : ~r.off_topic)

\* off_topic = [r for r in results if r.expected_answer == "OFF_TOPIC"]
OffTopicRecords(results) == SelectSeq(results, LAMBDA r : r.off_topic)

\* the metrics of run_evaluation
ComputeMetrics(questions, results) ==
    LET on_topic == OnTopicRecords(results)
        off_topic == OffTopicRecords(results)
        partial_scores == [i \in 1..Len(on_topic) |-> on_topic[i].partial_match_score]
        on_topic_latencies == [i \in 1..Len(on_topic) |-> on_topic[i].latency_ms]
    IN  [groundedness_pct |->
             Pct(Len(SelectSeq(on_topic, LAMBDA r : r.is_grounded)), Len(on_topic), 0),
         citation_accuracy_pct |->
             Pct(Len(SelectSeq(on_topic, LAMBDA r : r.citation_correct)), Len(on_topic), 0),
         off_topic_handling_pct |->
             Pct(Len(SelectSeq(off_topic, LAMBDA r : r.is_off_topic_handled)),
                 Len(off_topic), 100),
         partial_match_avg_pct |-> Mean(partial_scores),
         exact_match_pct |->
             Pct(Len(SelectSeq(partial_scores, LAMBDA x : x >= ExactMatchMin)),
                 Len(partial_scores), 0),
         num_queries |-> Len(on_topic_latencies),
         p50_ms |-> Percentile(on_topic_latencies, 50),
         p95_ms |-> Percentile(on_topic_latencies, 95),
         avg_ms |-> Mean(on_topic_latencies),
         min_ms |-> MinOf(on_topic_latencies),
         max_ms |-> MaxOf(on_topic_latencies),
         total_questions |-> Len(questions),
         successful_queries |-> Len(results),
         pass_rate_pct |->
             Pct(Len(SelectSeq(on_topic,
                            LAMBDA r : r.is_grounded /\ r.citation_correct)),
                 Len(on_topic), 0)]

NoEval ==
    [pc |-> "idle", mode |-> "none", questions |-> <<>>, i |-> 0,
     results |-> <<>>, log |-> <<>>, metrics |-> <<>>,
     ki |-> 0, grounded |-> 0, cited |-> 0, latencies |-> <<>>,
     partial_scores |-> <<>>, ablation_results |-> <<>>]

\* run_evaluation up to its loop: load_questions(), get_rag_chain()
RunEvaluationStart(questions, api_key) ==
    /\ ev.pc = "idle"
    /\ IF chain.constructed
       THEN UNCHANGED <<indexVars, chainVars>>
       ELSE NewRAGChain(DefaultK, api_key, "none")
    /\ ev' = [NoEval EXCEPT !.pc = "loop", !.mode = "evaluation",
                            !.questions = questions, !.i = 1]
    /\ UNCHANGED sc

\* a slip: the first failing question ends the loop
EvalStepAborts(e, o) ==
    LET qn == e.questions[e.i] IN
    IF o.failed
    THEN [e EXCEPT !.i = Len(e.questions) + 1,
                   !.log = Append(@, [id |-> qn.id, off_topic |-> qn.off_topic,
                                      response |-> o])]
    ELSE [e EXCEPT !.i = @ + 1,
                   !.log = Append(@, [id |-> qn.id, off_topic |-> qn.off_topic,
                                      response |-> o]),
                   !.results = Append(@,
                       [question_id |-> qn.id, off_topic |-> qn.off_topic,
                        category |-> qn.category,
                        is_grounded |-> IF qn.off_topic THEN TRUE ELSE o.g,
                        citation_correct |-> IF qn.off_topic THEN TRUE ELSE o.c,
                        is_off_topic_handled |->
                            IF qn.off_topic THEN o.handled ELSE TRUE,
                        partial_match_score |-> IF qn.off_topic THEN 0 ELSE o.p,
                        latency_ms |-> o.lat])]

\* one iteration of `for i, q in enumerate(questions)` with the response o:
\* an exception skips the question, otherwise its record is appended
EvalStepEffect(e, o) ==
    LET qn == e.questions[e.i] IN
    IF o.failed
    THEN [e EXCEPT !.i = @ + 1,
                   !.log = Append(@, [id |-> qn.id, off_topic |-> qn.off_topic,
                                      response |-> o])]
    ELSE [e EXCEPT !.i = @ + 1,
                   !.log = Append(@, [id |-> qn.id, off_topic |-> qn.off_topic,
                                      response |-> o]),
                   !.results = Append(@,
                       [question_id |-> qn.id, off_topic |-> qn.off_topic,
                        category |-> qn.category,
                        is_grounded |-> IF qn.off_topic THEN TRUE ELSE o.g,
                        citation_correct |-> IF qn.off_topic THEN TRUE ELSE o.c,
                        is_off_topic_handled |->
                            IF qn.off_topic THEN o.handled ELSE TRUE,
                        partial_match_score |-> IF qn.off_topic THEN 0 ELSE o.p,
                        latency_ms |-> o.lat])]

EvalStep ==
    /\ ev.pc = "loop"
    /\ ev.i <= Len(ev.questions)
    /\ \E o \in Responses(ev.questions[ev.i]) : ev' = EvalStepEffect(ev, o)
    /\ UNCHANGED <<sc, indexVars, chainVars>>

\* after the loop: the metrics and the structured output
EvalReport ==
    /\ ev.pc = "loop"
    /\ ev.i > Len(ev.questions)
    /\ ev' = [ev EXCEPT !.pc = "done",
                        !.metrics = ComputeMetrics(ev.questions, ev.results)]
    /\ UNCHANGED <<sc, indexVars, chainVars>>

\* k_values = [3, 5, 8]
AblationKs == <<3, 5, 8>>

\* run_ablation_k up to its loops: the first 10 on-topic questions
RunAblationStart(questions) ==
    /\ ev.pc = "idle"
    /\ ev' = [NoEval EXCEPT
                 !.pc = "ab_group", !.mode = "ablation", !.ki = 1,
                 !.questions =
                     LET on == SelectSeq(questions, LAMBDA x : ~x.off_topic)
                     IN  SubSeq(on, 1, IF Len(on) < AblationSubset
                                       THEN Len(on) ELSE AblationSubset)]
    /\ UNCHANGED <<sc, indexVars, chainVars>>

\* the head of `for k in k_values`: chain = RAGChain(k=k), counters reset
AblationGroupStart(api_key) ==
    /\ ev.pc = "ab_group"
    /\ NewRAGChain(AblationKs[ev.ki], api_key, "none")
    /\ ev' = [ev EXCEPT !.pc = "ab_query", !.i = 1, !.grounded = 0, !.cited = 0,
                        !.latencies = <<>>, !.partial_scores = <<>>]
    /\ UNCHANGED sc

\* one iteration of `for q in questions` with the response o
AblationQueryEffect(e, o) ==
    IF o.failed
    THEN [e EXCEPT !.i = @ + 1]
    ELSE [e EXCEPT !.i = @ + 1,
                   !.latencies = Append(@, o.lat),
                   !.grounded = IF o.g THEN @ + 1 ELSE @,
                   !.cited = IF o.c THEN @ + 1 ELSE @,
                   !.partial_scores = Append(@, o.p)]

AblationQuery ==
    /\ ev.pc = "ab_query"
    /\ ev.i <= Len(ev.questions)
    /\ \E o \in AblationResponses : ev' = AblationQueryEffect(ev, o)
    /\ UNCHANGED <<sc, indexVars, chainVars>>

\* the tail of `for k in k_values`: n = len(questions) and the group's
\* metrics; grounded / n raises ZeroDivisionError when n is 0
AblationGroupEnd ==
    /\ ev.pc = "ab_query"
    /\ ev.i > Len(ev.questions)
    /\ LET n == Len(ev.questions) IN
       IF n = 0
       THEN ev' = [ev EXCEPT !.pc = "ab_raised"]
       ELSE ev' = [ev EXCEPT
                      !.ablation_results = Append(@,
                          [label |-> AblationKs[ev.ki],
                           metrics |->
                               [groundedness_pct |->
                                    [num |-> ev.grounded * 100, den |-> n],
                                citation_accuracy_pct |->
                                    [num |-> ev.cited * 100, den |-> n],
                                partial_match_avg_pct |-> Mean(ev.partial_scores),
                                latency_p50_ms |-> Percentile(ev.latencies, 50),
                                latency_p95_ms |-> Percentile(ev.latencies, 95)]]),
                      !.ki = @ + 1,
                      !.pc = IF ev.ki = Len(AblationKs)
                             THEN "ab_done" ELSE "ab_group"]
    /\ UNCHANGED <<sc, indexVars, chainVars>>

EvalIdle == sc = NoScore /\ ev = NoEval

ScoreInit == sc \in ScoreInputs /\ ev = NoEval

(***************************************************************************)
(* Specifications                                                          *)
(***************************************************************************)
\* the chunker on every small document and budget
InitChunk == ChunkInit /\ IndexIdle /\ ChainIdle /\ EvalIdle

NextChunk ==
    \/ SplitTextStart /\ UNCHANGED <<indexVars, chainVars, evalVars>>
    \/ SplitTextStep /\ UNCHANGED <<indexVars, chainVars, evalVars>>
    \/ SplitTextFlush /\ UNCHANGED <<indexVars, chainVars, evalVars>>

SpecChunk == InitChunk /\ [][NextChunk]_vars

\* the indexing pipeline over every small directory
InitIndex == ChunkIdle /\ IndexInit /\ ChainInit /\ EvalIdle

NextIndex ==
    \/ \E kk \in 1..MaxK, api_key \in BOOLEAN, fault \in IndexFaults :
          NewRAGChain(kk, api_key, fault) /\ UNCHANGED <<chunkVars, evalVars>>
    \/ \E fault \in IndexFaults : Reindex(fault) /\ UNCHANGED <<chunkVars, evalVars>>
    \/ Restart /\ UNCHANGED <<chunkVars, evalVars>>

SpecIndex == InitIndex /\ [][NextIndex]_vars

\* rebuilds of the index over a directory that changes between them
NextCorpus ==
    \/ \E fault \in IndexFaults : Reindex(fault) /\ UNCHANGED <<chunkVars, evalVars>>
    \/ EditPolicies /\ UNCHANGED <<chunkVars, evalVars>>

SpecCorpus == InitIndex /\ [][NextCorpus]_vars

\* the answer engine over one fixed directory
InitQuery == ChunkIdle /\ IndexFixed /\ ChainInit /\ EvalIdle

NextQuery ==
    \/ \E kk \in 1..MaxK, api_key \in BOOLEAN :
          NewRAGChain(kk, api_key, "none") /\ UNCHANGED <<chunkVars, evalVars>>
    \/ /\ Ready
       /\ \E question \in Questions, fault \in SearchFaults \ {"none"} :
             Query(question, fault, <<>>, "cited")
       /\ UNCHANGED <<chunkVars, evalVars>>
    \/ /\ Ready
       /\ \E question \in Questions, raw \in RawResults(chain.k),
             llm \in LlmBehaviours :
             Query(question, "none", raw, llm)
       /\ UNCHANGED <<chunkVars, evalVars>>
    \/ /\ q.outcome = "none"
       /\ \E data \in ChatBodies, fault \in SearchFaults \ {"none"} :
             Chat(data, fault, <<>>, "cited")
       /\ UNCHANGED <<chunkVars, evalVars>>
    \/ /\ Ready
       /\ \E data \in ChatBodies, raw \in RawResults(chain.k),
             llm \in LlmBehaviours :
             Chat(data, "none", raw, llm)
       /\ UNCHANGED <<chunkVars, evalVars>>
    \/ ResponseConsumed /\ UNCHANGED <<chunkVars, evalVars>>
    \/ Restart /\ UNCHANGED <<chunkVars, evalVars>>

SpecQuery == InitQuery /\ [][NextQuery]_vars

\* the question sent before and after the reindex
ReindexQuestions == {<<"p", "t", "o", "?">>}

\* the answer engine while the reindex endpoint is in use
NextReindex ==
    \/ \E kk \in 1..MaxK, api_key \in BOOLEAN :
          NewRAGChain(kk, api_key, "none") /\ UNCHANGED <<chunkVars, evalVars>>
    \/ \E fault \in IndexFaults : Reindex(fault) /\ UNCHANGED <<chunkVars, evalVars>>
    \/ /\ Ready
       /\ \E question \in ReindexQuestions, fault \in SearchFaults \ {"none"} :
             Query(question, fault, <<>>, "cited")
       /\ UNCHANGED <<chunkVars, evalVars>>
    \/ /\ Ready
       /\ \E question \in ReindexQuestions, raw \in RawResults(chain.k),
             llm \in LlmBehaviours :
             Query(question, "none", raw, llm)
       /\ UNCHANGED <<chunkVars, evalVars>>
    \/ ResponseConsumed /\ UNCHANGED <<chunkVars, evalVars>>

SpecReindex == InitQuery /\ [][NextReindex]_vars

\* the scoring functions on every small input
InitScore == ChunkIdle /\ IndexIdle /\ ChainIdle /\ ScoreInit

NextScore ==
    \/ ScoreGroundedness /\ UNCHANGED <<chunkVars, indexVars, chainVars>>
    \/ ScoreCitation /\ UNCHANGED <<chunkVars, indexVars, chainVars>>
    \/ ScorePartialMatch /\ UNCHANGED <<chunkVars, indexVars, chainVars>>

SpecScore == InitScore /\ [][NextScore]_vars

\* the evaluation run and the k ablation over every small question file
InitEval == ChunkIdle /\ IndexFixed /\ ChainInit /\ EvalIdle

NextEval ==
    \/ \E questions \in QuestionFiles, api_key \in BOOLEAN :
          RunEvaluationStart(questions, api_key) /\ UNCHANGED chunkVars
    \/ EvalStep /\ UNCHANGED chunkVars
    \/ EvalReport /\ UNCHANGED chunkVars
    \/ \E questions \in QuestionFiles :
          RunAblationStart(questions) /\ UNCHANGED chunkVars
    \/ \E api_key \in BOOLEAN : AblationGroupStart(api_key) /\ UNCHANGED chunkVars
    \/ AblationQuery /\ UNCHANGED chunkVars
    \/ AblationGroupEnd /\ UNCHANGED chunkVars

SpecEval == InitEval /\ [][NextEval]_vars

(***************************************************************************)
(* Claims about the chunker                                                *)
(***************************************************************************)
IsSingleLine(c) == \A i \in 1..Len(c) : c[i] # NL

\* C6: every chunk emitted by _split_text is at most chunk_size long, except
\* a chunk that is one single line which alone is longer than chunk_size.
C6_ChunkWithinBudget ==
    \A i \in 1..Len(chunks) :
        \/ Len(chunks[i]) <= chunk_size
        \/ IsSingleLine(chunks[i])

\* C7: for every overlap budget >= 0, zero included, the text copied from the
\* tail of a closed chunk into the next buffer is at most chunk_overlap long.
C7_OverlapWithinBudget ==
    \A i \in 1..Len(overlap_log) : Len(overlap_log[i]) <= chunk_overlap

\* whitespace normalisation: the non-blank lines of s, each stripped
RECURSIVE StripEach(_)
StripEach(ls) ==
    IF ls = <<>> THEN <<>>
    ELSE LET l == Strip(Head(ls)) IN
         IF l = <<>> THEN StripEach(Tail(ls)) ELSE <<l>> \o StripEach(Tail(ls))

NonBlankLines(s) == StripEach(SplitLines(s))

\* the non-blank lines of the non-overlap regions of chunks i.., in chunk order
RECURSIVE NonOverlapLines(_)
NonOverlapLines(i) ==
    IF i > Len(chunks) THEN <<>>
    ELSE NonBlankLines(DropFirst(chunks[i], chunk_ov[i])) \o NonOverlapLines(i + 1)

\* C8: once _split_text has returned, the chunks without their overlap
\* regions, concatenated in chunk order, are the document modulo whitespace:
\* the same non-blank lines, each exactly once, in the original order.
C8_NonOverlapReconstructs ==
    split_pc = "done" => NonOverlapLines(1) = NonBlankLines(text)

\* a document that went through an overlap copy and through line splitting
C8_Witness ==
    /\ split_pc = "done"
    /\ Len(chunks) >= 3
    /\ \E i \in 1..Len(chunks) : chunk_ov[i] > 0
    /\ \E i \in 1..Len(chunks) : chunk_ov[i] = 0 /\ i > 1
    /\ NonOverlapLines(1) = NonBlankLines(text)

(***************************************************************************)
(* Claims about the answer engine                                          *)
(***************************************************************************)
\* the search of the last query succeeded
Searched == q.outcome \in {"returned", "raised"} /\ q.fault = "none"

\* the top-ranked result's similarity score, 1 - distance
TopScore == 100 - q.results[1].distance

\* the last query passed the off-topic gate
OnTopic == Searched /\ q.results # <<>> /\ TopScore >= OffTopicThreshold

\* the citation list has one entry per result, in rank order, with that
\* result's source, title and score
CitationsMatchResults ==
    /\ Len(q.sources) = Len(q.results)
    /\ \A i \in 1..Len(q.results) :
          /\ q.sources[i].source = q.results[i].metadata.source
          /\ q.sources[i].title = q.results[i].metadata.title
          /\ q.sources[i].score = 100 - q.results[i].distance

\* C1: when the search returns zero results, query returns the canned
\* refusal with an empty citation list and makes no LLM call.
C1_EmptyResultsRefused ==
    (Searched /\ q.results = <<>>) =>
        /\ q.outcome = "returned"
        /\ q.answer = Refusal
        /\ q.sources = <<>>
        /\ ~q.llmInvoked
        /\ q.apiCalls = 0

\* zero results with a configured LLM: refused, the LLM untouched
C1_Witness ==
    /\ Searched
    /\ q.results = <<>>
    /\ q.groq_client
    /\ q.outcome = "returned"
    /\ q.answer = Refusal

\* C2: the off-topic decision is made on the top-ranked result's score alone,
\* exclusive on the low side: a top score of 0.30 or more is on-topic (the
\* context is built from the results and generation is attempted), a top
\* score below 0.30 gives the canned refusal and no LLM call.
C2_ThresholdExclusive ==
    (Searched /\ q.results # <<>>) =>
        IF TopScore >= OffTopicThreshold
        THEN /\ q.llmInvoked
             /\ Len(q.prompt.context) = Len(q.results)
             /\ \A i \in 1..Len(q.results) :
                   q.prompt.context[i].content = q.results[i].content
             /\ q.answer # Refusal
        ELSE /\ q.outcome = "returned"
             /\ q.answer = Refusal
             /\ q.sources = <<>>
             /\ ~q.llmInvoked
             /\ q.apiCalls = 0

\* a top score of exactly 0.30 above a result below the threshold: on-topic
C2_Witness ==
    /\ Searched
    /\ Len(q.results) >= 2
    /\ TopScore = OffTopicThreshold
    /\ q.results[2].score < OffTopicThreshold
    /\ q.llmInvoked
    /\ q.apiCalls = 1

\* C3: for an on-topic query with the LLM unconfigured or raising, query does
\* not raise: it returns an error-string answer with the citation list built
\* from the retrieval results, and an unconfigured backend is never called.
C3_LlmFailureDegrades ==
    (OnTopic /\ (~q.groq_client \/ q.llm = "raise")) =>
        /\ q.outcome = "returned"
        /\ q.answer.kind = "error"
        /\ CitationsMatchResults
        /\ (~q.groq_client => q.apiCalls = 0)

\* the backend raised on an on-topic query with two results
C3_Witness ==
    /\ OnTopic
    /\ q.groq_client
    /\ q.llm = "raise"
    /\ q.apiCalls = 1
    /\ q.outcome = "returned"
    /\ Len(q.sources) = 2

\* C4: when embedding the question or querying the index fails, query raises
\* at once: no retry, no LLM call, no canned refusal, no response.
C4_SearchFailurePropagates ==
    (q.outcome # "none" /\ q.fault # "none") =>
        /\ q.outcome = "raised"
        /\ q.answer = NoAnswer
        /\ q.sources = <<>>
        /\ ~q.llmInvoked
        /\ q.apiCalls = 0
        /\ q.embedCalls = 1
        /\ q.indexQueries = (IF q.fault = "embed" THEN 0 ELSE 1)

\* the index query failed under a configured engine
C4_Witness ==
    /\ q.fault = "index"
    /\ q.groq_client
    /\ q.outcome = "raised"
    /\ q.indexQueries = 1

\* C5: for every on-topic query that returns, the citation list has exactly
\* one entry per retrieval result, in rank order, with that result's source,
\* title and score, whatever the LLM answered.
C5_CitationsFollowRetrieval ==
    (OnTopic /\ q.outcome = "returned") => CitationsMatchResults

\* two results from different documents, and an answer that cites nothing
C5_Witness ==
    /\ OnTopic
    /\ q.outcome = "returned"
    /\ q.llm = "uncited"
    /\ Len(q.results) = 2
    /\ q.results[1].metadata.source # q.results[2].metadata.source
    /\ q.sources[1].source = q.results[1].metadata.source

\* C19: every paragraph that alone is longer than chunk_size is split at its
\* line boundaries by _split_large_paragraph, all pieces but the last are
\* emitted and the last one becomes the buffer, whether or not the buffer
\* is empty when the loop reaches the paragraph.
C19_OversizedParagraphSplit ==
    [][(/\ split_pc = "loop"
        /\ paragraphs # <<>>
        /\ paragraphs' = Tail(paragraphs)
        /\ Len(Strip(Head(paragraphs))) > chunk_size)
          => LET pieces == SplitLargeParagraph(Strip(Head(paragraphs)), chunk_size)
                 init == SubSeq(pieces, 1, Len(pieces) - 1)
             IN  /\ pieces # <<>>
                 /\ current_chunk' = pieces[Len(pieces)]
                 /\ Len(chunks') >= Len(chunks) + Len(init)
                 /\ SubSeq(chunks', Len(chunks') - Len(init) + 1, Len(chunks'))
                        = init]_vars

(***************************************************************************)
(* Claims about the indexing pipeline                                      *)
(***************************************************************************)
RECURSIVE TotalChunks(_)
TotalChunks(pol) ==
    IF pol = <<>> THEN 0 ELSE Head(pol).nchunks + TotalChunks(Tail(pol))

\* C9: with a non-empty index and force false, initialize_vectorstore changes
\* nothing: no clear, no load, no embedding, no insert, the collection and
\* its count as before.
C9_NoopWhenIndexed ==
    (ix.op # "none" /\ ~ix.force /\ ix.before.entries # <<>>) =>
        /\ db = ix.before
        /\ ~ix.raised
        /\ ~ix.cleared
        /\ ~ix.loaded
        /\ ~ix.embedded
        /\ ix.inserted = 0
        /\ ix.count = Len(ix.before.entries)

\* a new process finds the persisted index and leaves it alone
C9_Witness ==
    /\ ix.op = "get_vectorstore"
    /\ ~ix.force
    /\ Len(ix.before.entries) >= 2
    /\ db = ix.before
    /\ _vectorstore.made

\* C10: after a successful call of initialize_vectorstore, forced or not, the
\* index holds exactly one entry per chunk of the corpus: no id twice, as
\* many entries as chunks.
C10_OneEntryPerChunk ==
    (ix.op # "none" /\ ~ix.raised) =>
        /\ DistinctIds(db.entries)
        /\ Len(db.entries) = TotalChunks(policies)
        /\ \A i \in 1..Len(policies) : \A c \in 0..(policies[i].nchunks - 1) :
              Cardinality({j \in 1..Len(db.entries) :
                              /\ db.entries[j].source = policies[i].source
                              /\ db.entries[j].chunk_id = c}) = 1

\* a forced rebuild, a restart and an unforced call over a corpus of 3 chunks
C10_Witness ==
    /\ ix.op = "get_vectorstore"
    /\ ~ix.raised
    /\ db.gen >= 1
    /\ ncalls >= 3
    /\ Len(db.entries) >= 3
    /\ TotalChunks(policies) = Len(db.entries)

\* C11: the id of an entry is a function of its source name and chunk index
\* only: from one indexing run to the next, whatever other documents are in
\* the batch and wherever the chunk stands in it, the same chunk of the same
\* source gets the same id.
C11_IdFromSourceAndChunk ==
    [][\A i \in 1..Len(db.entries) : \A j \in 1..Len(db'.entries) :
          (/\ db.entries[i].source = db'.entries[j].source
           /\ db.entries[i].chunk_id = db'.entries[j].chunk_id)
              => db.entries[i].id = db'.entries[j].id]_vars

(***************************************************************************)
(* Claims about the entry points and the engine's construction            *)
(***************************************************************************)
\* the request carried no question: none at all, an empty or a blank one
BlankQuestion == ~q.has_message \/ Strip(q.message) = <<>>

NoWorkDone ==
    /\ q.embedCalls = 0
    /\ q.indexQueries = 0
    /\ q.apiCalls = 0
    /\ ~q.llmInvoked

C20_ConstructionLeavesIndex ==
    /\ [](q.outcome # "none" => Len(q.results) <= q.k)
    /\ [][(chain' # chain /\ chain'.constructed /\ db.entries # <<>>)
            => /\ db' = db
               /\ \/ ix' = ix
                  \/ /\ ~ix'.cleared
                     /\ ~ix'.loaded
                     /\ ~ix'.embedded
                     /\ ix'.inserted = 0]_vars

\* an engine with k = 1, built by a new process over the populated index,
\* has answered a query from its single result
C20_Witness ==
    /\ chain.constructed
    /\ chain.k = 1
    /\ ix.op = "get_vectorstore"
    /\ ix.before.entries # <<>>
    /\ db = ix.before
    /\ ~ix.loaded
    /\ q.outcome = "returned"
    /\ q.k = 1
    /\ Len(q.results) = 1

(***************************************************************************)
(* Claims about the scoring functions                                      *)
(***************************************************************************)
\* n occurs in h as a contiguous run
Occurs(n, h) ==
    \E k \in 0..(Len(h) - Len(n)) : SubSeq(h, k + 1, k + Len(n)) = n

\* the maximal runs of s whose characters are in the set keep, as
\* <<first, last>>
Runs(s, keep) ==
    {p \in (1..Len(s)) \X (1..Len(s)) :
        /\ p[1] <= p[2]
        /\ \A k \in p[1]..p[2] : s[k] \in keep
        /\ p[1] = 1 \/ s[p[1] - 1] \notin keep
        /\ p[2] = Len(s) \/ s[p[2] + 1] \notin keep}

\* the characters of s
Chars(s) == {s[i] : i \in 1..Len(s)}

\* the whitespace-separated tokens of s that are longer than 3 characters
LongWords(s) ==
    {p \in Runs(s, Chars(s) \ Whitespace) : p[2] - p[1] + 1 > 3}

\* those of them that occur in a, case ignored
MatchedWords(s, a) ==
    {p \in LongWords(s) : Occurs(Lower(SubSeq(s, p[1], p[2])), Lower(a))}

\* C13 as stated: evaluate_groundedness is False when either argument is
\* empty, and otherwise True exactly when at least 30% of the tokens of
\* expected longer than 3 characters occur in answer, case ignored; also for
\* an expected text without such a token.
C13_GroundednessRule ==
    (sc.fn = "groundedness" /\ sc.done) =>
        sc.verdict =
            IF sc.answer = <<>> \/ sc.expected = <<>> THEN FALSE
            ELSE 100 * Cardinality(MatchedWords(sc.expected, sc.answer))
                    >= 30 * Cardinality(LongWords(sc.expected))

\* C13 amended: evaluate_groundedness is False when either argument is empty
\* and when expected has no token longer than 3 characters; otherwise it is
\* True exactly when at least 30% of those tokens occur in answer, case
\* ignored.
C13_GroundednessRuleWithKeyTerms ==
    (sc.fn = "groundedness" /\ sc.done) =>
        sc.verdict =
            IF sc.answer = <<>> \/ sc.expected = <<>> THEN FALSE
            ELSE /\ LongWords(sc.expected) # {}
                 /\ 100 * Cardinality(MatchedWords(sc.expected, sc.answer))
                       >= 30 * Cardinality(LongWords(sc.expected))

\* one of three key terms occurs, in another case and inside a longer word
C13_Witness ==
    /\ sc.fn = "groundedness"
    /\ sc.done
    /\ Cardinality(LongWords(sc.expected)) = 3
    /\ Cardinality(MatchedWords(sc.expected, sc.answer)) = 1
    /\ ~Occurs(<<"L", "e", "a", "v", "e">>, sc.answer)
    /\ sc.verdict

\* some cited source is inside the expected source or has it inside, case
\* ignored
SomeSourceMatches(cited, expected) ==
    \E i \in 1..Len(cited) :
        \/ Occurs(Lower(cited[i]), Lower(expected))
        \/ Occurs(Lower(expected), Lower(cited[i]))

\* C14 as stated: evaluate_citation is True exactly when expected is empty or
\* some cited source matches it as a substring in either direction, case
\* ignored; no cited source with a non-empty expected gives False, and
\* "pto_policy.md" cited for the expected "PTO Policy" gives True.
C14_CitationRule ==
    (sc.fn = "citation" /\ sc.done) =>
        /\ sc.verdict = (sc.expected = <<>> \/ SomeSourceMatches(sc.cited, sc.expected))
        /\ (sc.cited = <<>> /\ sc.expected # <<>>) => ~sc.verdict
        /\ (sc.cited = <<PtoPolicyMd>> /\ sc.expected = PtoPolicyTitle) => sc.verdict

\* C14 amended: the same rule, under which "pto_policy.md" cited for the
\* expected "PTO Policy" gives False: neither lowercase string is inside
\* the other.
C14_CitationRuleNoTitleMatch ==
    (sc.fn = "citation" /\ sc.done) =>
        /\ sc.verdict = (sc.expected = <<>> \/ SomeSourceMatches(sc.cited, sc.expected))
        /\ (sc.cited = <<>> /\ sc.expected # <<>>) => ~sc.verdict
        /\ (sc.cited = <<PtoPolicyMd>> /\ sc.expected = PtoPolicyTitle) => ~sc.verdict

\* the file name was cited for the title and did not count
C14_Witness ==
    /\ sc.fn = "citation"
    /\ sc.done
    /\ sc.cited = <<PtoPolicyMd>>
    /\ sc.expected = PtoPolicyTitle
    /\ ~sc.verdict

\* the lowercase alphanumeric runs of s that are longer than 2 characters
TokenSet(s) ==
    LET l == Lower(s)
        alnum == Chars(LowerCase) \cup Digits
    IN  {SubSeq(l, p[1], p[2]) :
            p \in {r \in Runs(l, alnum) : r[2] - r[1] + 1 > 2}}

\* C15 as stated: evaluate_partial_match lies in [0, 1] and equals
\* |tokens(answer) \cap tokens(expected)| / |tokens(expected)|; it is 0.0 for
\* an empty answer, for the expected "OFF_TOPIC" and for disjoint token sets,
\* and 1.0 whenever the two token sets are identical.
C15_PartialMatchRule ==
    (sc.fn = "partial_match" /\ sc.done) =>
        LET A == TokenSet(sc.answer)
            E == TokenSet(sc.expected)
        IN  /\ 0 <= sc.ratio.num
            /\ sc.ratio.num <= sc.ratio.den
            /\ sc.ratio.num * Cardinality(E) = Cardinality(A \cap E) * sc.ratio.den
            /\ sc.answer = <<>> => sc.ratio.num = 0
            /\ sc.expected = OffTopicSentinel => sc.ratio.num = 0
            /\ A \cap E = {} => sc.ratio.num = 0
            /\ A = E => sc.ratio.num = sc.ratio.den

\* C15 amended: evaluate_partial_match lies in [0, 1]; it is 0.0 for an empty
\* answer, for the expected "OFF_TOPIC" and for an expected text without
\* tokens, and otherwise equals |tokens(answer) \cap tokens(expected)| /
\* |tokens(expected)|: 0.0 for disjoint token sets, 1.0 for identical ones.
C15_PartialMatchRuleGuarded ==
    (sc.fn = "partial_match" /\ sc.done) =>
        LET A == TokenSet(sc.answer)
            E == TokenSet(sc.expected)
            guarded == sc.answer = <<>> \/ sc.expected = OffTopicSentinel \/ E = {}
        IN  /\ 0 <= sc.ratio.num
            /\ sc.ratio.num <= sc.ratio.den
            /\ guarded => sc.ratio.num = 0
            /\ ~guarded =>
                 sc.ratio.num * Cardinality(E) = Cardinality(A \cap E) * sc.ratio.den
            /\ A \cap E = {} => sc.ratio.num = 0
            /\ (~guarded /\ A = E) => sc.ratio.num = sc.ratio.den

\* different texts with the same non-empty token set score 1.0
C15_Witness ==
    /\ sc.fn = "partial_match"
    /\ sc.done
    /\ sc.answer # sc.expected
    /\ TokenSet(sc.answer) = TokenSet(sc.expected)
    /\ Cardinality(TokenSet(sc.expected)) = 1
    /\ sc.ratio.num = sc.ratio.den

(***************************************************************************)
(* Claims about the evaluation run and the ablation                        *)
(***************************************************************************)
\* the questions that were processed without an error: on-topic, off-topic
OnOk == {i \in 1..Len(ev.log) : ~ev.log[i].response.failed /\ ~ev.log[i].off_topic}
OffOk == {i \in 1..Len(ev.log) : ~ev.log[i].response.failed /\ ev.log[i].off_topic}

\* the ratio r is the percentage of T in S, or default when S is empty
IsShare(r, T, S, default) ==
    /\ r.den > 0
    /\ IF S = {} THEN r.num = default * r.den
       ELSE r.num * Cardinality(S) = 100 * Cardinality(T) * r.den

\* the ratio r is total / |S|, or 0 when S is empty
IsMean(r, S, total) ==
    /\ r.den > 0
    /\ IF S = {} THEN r.num = 0
       ELSE r.num * Cardinality(S) = total * r.den

LatencyOf(i) == ev.log[i].response.lat
ScoreOf(i) == ev.log[i].response.p

RECURSIVE SumLatency(_)
SumLatency(S) ==
    IF S = {} THEN 0
    ELSE LET x == CHOOSE y \in S : TRUE IN LatencyOf(x) + SumLatency(S \ {x})

RECURSIVE SumScore(_)
SumScore(S) ==
    IF S = {} THEN 0
    ELSE LET x == CHOOSE y \in S : TRUE IN ScoreOf(x) + SumScore(S \ {x})

\* C16: the aggregates of run_evaluation are computed over the records they
\* apply to: groundedness, citation accuracy, average partial match, exact
\* match (score >= 0.8), latency statistics and pass rate (grounded and
\* citation correct) over the on-topic records only, off-topic handling over
\* the off-topic records only.
C16_AggregatesOverApplicableRecords ==
    ev.pc = "done" =>
        LET m == ev.metrics IN
        /\ IsShare(m.groundedness_pct, {i \in OnOk : ev.log[i].response.g}, OnOk, 0)
        /\ IsShare(m.citation_accuracy_pct, {i \in OnOk : ev.log[i].response.c},
                   OnOk, 0)
        /\ IsShare(m.pass_rate_pct,
                   {i \in OnOk : ev.log[i].response.g /\ ev.log[i].response.c},
                   OnOk, 0)
        /\ IsShare(m.exact_match_pct, {i \in OnOk : ScoreOf(i) >= 80}, OnOk, 0)
        /\ IsShare(m.off_topic_handling_pct,
                   {i \in OffOk : ev.log[i].response.handled}, OffOk, 100)
        /\ IsMean(m.partial_match_avg_pct, OnOk, SumScore(OnOk))
        /\ IsMean(m.avg_ms, OnOk, SumLatency(OnOk))
        /\ m.num_queries = Cardinality(OnOk)
        /\ IF OnOk = {}
           THEN m.min_ms = 0 /\ m.max_ms = 0 /\ m.p50_ms.num = 0 /\ m.p95_ms.num = 0
           ELSE /\ \E i \in OnOk : m.min_ms = LatencyOf(i)
                /\ \E i \in OnOk : m.max_ms = LatencyOf(i)
                /\ \A i \in OnOk : m.min_ms <= LatencyOf(i) /\ LatencyOf(i) <= m.max_ms
                /\ m.min_ms * m.p50_ms.den <= m.p50_ms.num
                /\ m.p50_ms.num * m.p95_ms.den <= m.p95_ms.num * m.p50_ms.den
                /\ m.p95_ms.num <= m.max_ms * m.p95_ms.den
                /\ 2 * Cardinality({i \in OnOk :
                          LatencyOf(i) * m.p50_ms.den <= m.p50_ms.num})
                      >= Cardinality(OnOk)
                /\ 2 * Cardinality({i \in OnOk :
                          LatencyOf(i) * m.p50_ms.den >= m.p50_ms.num})
                      >= Cardinality(OnOk)

\* two on-topic records, one of them grounded, and an off-topic record whose
\* refusal was not recognised
C16_Witness ==
    /\ ev.pc = "done"
    /\ Cardinality(OnOk) = 2
    /\ Cardinality(OffOk) = 1
    /\ ev.metrics.groundedness_pct = [num |-> 100, den |-> 2]
    /\ ev.metrics.off_topic_handling_pct = [num |-> 0, den |-> 1]
    /\ ev.metrics.p50_ms = [num |-> 2000, den |-> 100]
    /\ ev.metrics.max_ms = 30

C18_AblationAlwaysReports ==
    ev.mode = "ablation" =>
        /\ ev.pc # "ab_raised"
        /\ ev.pc = "ab_done" =>
              /\ Len(ev.ablation_results) = 3
              /\ ev.ablation_results[1].label = 3
              /\ ev.ablation_results[2].label = 5
              /\ ev.ablation_results[3].label = 8
              /\ \A j \in 1..3 :
                    \A name \in {"groundedness_pct", "citation_accuracy_pct",
                                 "partial_match_avg_pct", "exact_match_pct",
                                 "off_topic_handling_pct", "pass_rate_pct"} :
                        name \in DOMAIN ev.ablation_results[j].metrics

\* C21: after a forced reindex through the reindex endpoint has completed
\* successfully, a query through the engine that was constructed before goes
\* to the collection the reindex populated: the singleton's collection handle
\* is not the collection the reindex deleted.
C21_SingletonFollowsReindex ==
    (q.outcome \in {"returned", "raised"} /\ q.indexQueries > 0 /\ q.reindexed)
        => q.handle = q.live

\* C22: when the engine answers a question whose expected answer is
\* "OFF_TOPIC" with its off-topic refusal, run_evaluation records the
\* question as off-topic handled, grounded and correctly cited with a
\* partial-match score of 0: the refusal contains a harness indicator.
C22_RefusalCountsAsHandled ==
    ev.mode = "evaluation" =>
        \A i \in 1..Len(ev.log) :
            (ev.log[i].off_topic /\ ev.log[i].response.short) =>
                \E j \in 1..Len(ev.results) :
                    /\ ev.results[j].question_id = ev.log[i].id
                    /\ ev.results[j].is_off_topic_handled
                    /\ ev.results[j].is_grounded
                    /\ ev.results[j].citation_correct
                    /\ ev.results[j].partial_match_score = 0

\* a run that is over, in which the second question got the refusal and has
\* its record
C22_Witness ==
    /\ ev.mode = "evaluation"
    /\ ev.pc = "done"
    /\ Len(ev.log) = 2
    /\ ev.log[2].off_topic
    /\ ev.log[2].response.short
    /\ Contains(Lower(RefusalText), Indicators[1])
    /\ ev.results[Len(ev.results)].question_id = 2
    /\ ev.results[Len(ev.results)].is_off_topic_handled
    /\ ev.metrics.off_topic_handling_pct.num > 0

====
